---------------------------- MODULE Spec2Model ----------------------------
(***************************************************************************)
(* Model of the real-time data distribution layer of the dashboard:        *)
(* the singleton WebSocketService (frontend/src/services/                  *)
(* WebSocketService.ts): one streaming transport at a time, fan-out of     *)
(* decoded frames and of connection-state changes to registered            *)
(* callbacks, and bounded reconnection through setTimeout.                 *)
(*                                                                         *)
(* Everything runs on one event loop: every action below is one task of    *)
(* that loop (a public method call or one transport/timer event handler)   *)
(* executed to completion.                                                 *)
(***************************************************************************)
EXTENDS Integers, Sequences, FiniteSets, TLC

(***************************************************************************)
(* Program constants.                                                      *)
(***************************************************************************)
maxReconnectAttempts == 10

(***************************************************************************)
(* Bounds of the model.                                                    *)
(***************************************************************************)
\* how many of the latest notifications of a subscriber are remembered
LogLen == 2

(***************************************************************************)
(* Inputs.                                                                 *)
(***************************************************************************)
\* endpoints `new WebSocket(url)` accepts
ValidUrls == {"ws://a/ws/live", "ws://b/ws/live"}
\* an endpoint `new WebSocket(url)` rejects synchronously (SyntaxError: a
\* WebSocket URL must not carry a fragment)
MalformedUrls == {"ws://a/ws/live#x"}
Urls == ValidUrls \cup MalformedUrls
\* a falsy url argument (undefined or the empty string)
NoUrl == ""

\* connection-state callbacks; ConnThrowing are the ones that throw when called
ConnCbs == {"c1", "c2"}
ConnThrowing == {"c2"}
\* message callbacks; MsgThrowing are the ones that throw when called
MsgCbs == {"m1", "m2"}
MsgThrowing == {"m2"}

Throwing == ConnThrowing \cup MsgThrowing

\* message callbacks that change the subscriptions while they are called:
\* uSelf unsubscribes itself, uOther unsubscribes m1, sNew subscribes the
\* callback n1 (unless n1 is subscribed already: one new callback is enough)
Unsubscribing == {"uSelf", "uOther"}
Subscribing == {"sNew"}
ReentrantCbs == Unsubscribing \cup Subscribing
NewCb == "n1"

\* the components that call useWebSocket(); the two callbacks a component
\* registers (handleConnectionChange, handleMessage) are named by the component
Adapters == {"a1", "a2"}
\* useState<T | null>(null), useState<Error | null>(null)
NoData == <<>>
NoError == "null"

\* the values handed to send(msg); the last one is an object that refers to
\* itself, which JSON.stringify rejects with a TypeError
Msgs == {<<"object", "type", "ping">>, <<"object", "type", "reset">>, <<"circular">>}
\* the values the components hand to the send of the hook
HookMsgs == {<<"object", "type", "ping">>, <<"circular">>}

(***************************************************************************)
(* Frames and JSON.parse.  A frame is the token sequence of event.data.    *)
(* The decoder accepts the JSON texts the tokens can form here: a string   *)
(* literal, the empty object and an object with one string member.         *)
(***************************************************************************)
LB == <<"punct", "{">>
RB == <<"punct", "}">>
COLON == <<"punct", ":">>
Str(s) == <<"str", s>>
IsStr(t) == t[1] = "str"

Frames ==
  { <<LB, Str("mode"), COLON, Str("warning"), RB>>,
    <<LB, Str("mode"), COLON, Str("safe"), RB>>,
    <<LB, RB>>,
    <<LB, Str("mode"), COLON, Str("warning")>>,
    <<LB, Str("mode"), Str("warning"), RB>>,
    <<>> }

\* JSON.parse(event.data): [ok |-> TRUE, value |-> decoded] or a SyntaxError
JSONParse(f) ==
  IF Len(f) = 1 /\ IsStr(f[1])
    THEN [ok |-> TRUE, value |-> <<"string", f[1][2]>>]
  ELSE IF Len(f) = 2 /\ f[1] = LB /\ f[2] = RB
    THEN [ok |-> TRUE, value |-> <<"object">>]
  ELSE IF /\ Len(f) = 5
          /\ f[1] = LB /\ IsStr(f[2]) /\ f[3] = COLON /\ IsStr(f[4]) /\ f[5] = RB
    THEN [ok |-> TRUE, value |-> <<"object", f[2][2], f[4][2]>>]
  ELSE [ok |-> FALSE, value |-> <<"SyntaxError">>]

\* JSON.stringify(msg): [ok |-> TRUE, text |-> frame] or a TypeError
JSONStringify(v) ==
  IF v[1] = "string" /\ Len(v) = 2
    THEN [ok |-> TRUE, text |-> <<Str(v[2])>>]
  ELSE IF v[1] = "object" /\ Len(v) = 1
    THEN [ok |-> TRUE, text |-> <<LB, RB>>]
  ELSE IF v[1] = "object" /\ Len(v) = 3
    THEN [ok |-> TRUE, text |-> <<LB, Str(v[2]), COLON, Str(v[3]), RB>>]
  ELSE [ok |-> FALSE, text |-> <<>>]

(***************************************************************************)
(* State.                                                                  *)
(***************************************************************************)
VARIABLES
  instance,             \* WebSocketService.instance # null
  url,                  \* this.url
  socket,               \* this.socket: index into transports, 0 for null
  transports,           \* the WebSocket objects that can still be observed
  reconnectAttempts,    \* this.reconnectAttempts
  timers,               \* number of pending setTimeout(() => this.connect())
  messageCallbacks,     \* this.messageCallbacks
  connectionCallbacks,  \* this.connectionCallbacks
  connLog,              \* per connection callback: the latest values it was
                        \* called with since it was registered
  failedStreak,         \* connection attempts that failed since the last open
  scheduled,            \* reconnect timers set since the last open
  everOpened,           \* some transport has reached OPEN
  awaitingAttempt,      \* changeUrl closed a live transport and connect() has
                        \* not run since
  last,                 \* the task that ran last: what it called and whether
                        \* an exception left it
  notifiedState,        \* the value of the latest connectionCallbacks.forEach
  wire,                 \* the latest frames handed to this.socket.send, in
                        \* order, since this.socket was created
  phase,                \* per component: unmounted, rendered (useState done,
                        \* effect not yet run) or attached (effect has run)
  adata,                \* per component: useWebSocket's data
  aconn,                \* per component: useWebSocket's isConnected
  aerror                \* per component: useWebSocket's error

vars == <<instance, url, socket, transports, reconnectAttempts, timers,
          messageCallbacks, connectionCallbacks, connLog, failedStreak,
          scheduled, everOpened, awaitingAttempt, last, notifiedState, wire,
          phase, adata, aconn, aerror>>

hookVars == <<phase, adata, aconn, aerror>>

Range(s) == {s[i] : i \in 1..Len(s)}

\* the transports that are not CLOSED
IsLive(t) == t.readyState # "CLOSED"
LiveTransports == {i \in 1..Len(transports) : IsLive(transports[i])}

\* an isConnected() that only asks whether there is a socket
isConnectedAnySocket == socket # 0

\* isConnected(): this.socket?.readyState === WebSocket.OPEN
isConnected == socket # 0 /\ transports[socket].readyState = "OPEN"

(***************************************************************************)
(* Array.prototype.forEach over a callback list: the callbacks are called  *)
(* in index order and the first one that throws ends the loop.             *)
(***************************************************************************)
FirstThrow(cbs) ==
  IF \E i \in 1..Len(cbs) : cbs[i] \in Throwing
    THEN CHOOSE i \in 1..Len(cbs) :
           /\ cbs[i] \in Throwing
           /\ \A j \in 1..(i - 1) : cbs[j] \notin Throwing
    ELSE 0

\* the callbacks forEach calls, in call order
Invoked(cbs) == IF FirstThrow(cbs) = 0 THEN cbs ELSE SubSeq(cbs, 1, FirstThrow(cbs))
\* forEach ends by an exception
ForEachThrows(cbs) == FirstThrow(cbs) # 0

Calls(cbs, v) == [i \in 1..Len(Invoked(cbs)) |-> <<Invoked(cbs)[i], v>>]

Keep(s) == IF Len(s) > LogLen THEN SubSeq(s, Len(s) - LogLen + 1, Len(s)) ELSE s

Notified(cbs, v) ==
  [c \in ConnCbs |-> IF c \in Range(Invoked(cbs))
                       THEN Keep(Append(connLog[c], v))
                       ELSE connLog[c]]

\* handleConnectionChange = (connected) => setIsConnected(connected), for the
\* components among the callbacks forEach calls
ConnectedAfter(cbs, v) ==
  [a \in Adapters |-> IF a \in Range(Invoked(cbs)) THEN v ELSE aconn[a]]

\* handleMessage = (message) => setData(message), for the components called
DataAfter(calls) ==
  [a \in Adapters |-> IF \E k \in 1..Len(calls) : calls[k][1] = a
                        THEN calls[CHOOSE k \in 1..Len(calls) : calls[k][1] = a][2]
                        ELSE adata[a]]

Task(op, arg, calls, escaped) ==
  [op |-> op, arg |-> arg, calls |-> calls, escaped |-> escaped]

(***************************************************************************)
(* scheduleReconnect(), with tm timers pending when it is called.          *)
(***************************************************************************)
\* a budget test that lets one attempt too many through
ShouldScheduleOneMore(n) == n <= maxReconnectAttempts + 1

ShouldSchedule(n) == n <= maxReconnectAttempts

\* a scheduleReconnect that sets two timers (one for the error event, one for
\* the close event of the same failure)
scheduleReconnectTwice(tm) ==
  /\ reconnectAttempts' = reconnectAttempts + 1
  /\ timers' = IF ShouldSchedule(reconnectAttempts + 1) THEN tm + 2 ELSE tm
  /\ scheduled' = IF ShouldSchedule(reconnectAttempts + 1)
                    THEN scheduled + 1 ELSE scheduled

scheduleReconnect(tm) ==
  /\ reconnectAttempts' = reconnectAttempts + 1
  /\ timers' = IF ShouldSchedule(reconnectAttempts + 1) THEN tm + 1 ELSE tm
  /\ scheduled' = IF ShouldSchedule(reconnectAttempts + 1)
                    THEN scheduled + 1 ELSE scheduled

(***************************************************************************)
(* connect() against endpoint u, with tm timers pending when it is called. *)
(* A WebSocket that is CLOSED and no longer referenced by this.socket      *)
(* delivers no further event and is dropped from transports.               *)
(***************************************************************************)
NewTransport(u) == [url |-> u, readyState |-> "CONNECTING", wasOpen |-> FALSE]

\* a connect() without the catch: a constructor that throws schedules nothing
connectNoCatch(u, tm) ==
  /\ awaitingAttempt' = FALSE
  /\ IF u \in MalformedUrls
       THEN /\ UNCHANGED <<socket, transports, wire, reconnectAttempts, scheduled>>
            /\ timers' = tm
            /\ failedStreak' = failedStreak + 1
       ELSE /\ LET kept == SelectSeq(transports, IsLive)
               IN /\ transports' = Append(kept, NewTransport(u))
                  /\ socket' = Len(kept) + 1
            /\ wire' = <<>>
            /\ timers' = tm
            /\ UNCHANGED <<reconnectAttempts, scheduled, failedStreak>>

connect(u, tm) ==
  /\ awaitingAttempt' = FALSE
  /\ IF u \in MalformedUrls
       THEN \* new WebSocket(url) throws: this.socket keeps its old value
            /\ UNCHANGED <<socket, transports, wire>>
            /\ scheduleReconnect(tm)
            /\ failedStreak' = failedStreak + 1
       ELSE /\ LET kept == SelectSeq(transports, IsLive)
               IN /\ transports' = Append(kept, NewTransport(u))
                  /\ socket' = Len(kept) + 1
            /\ wire' = <<>>
            /\ timers' = tm
            /\ UNCHANGED <<reconnectAttempts, scheduled, failedStreak>>

(***************************************************************************)
(* changeUrl(newUrl)                                                       *)
(***************************************************************************)
\* a close() that leaves a socket that is still connecting alone
CloseOpenOnly(ts, i) ==
  IF i # 0 /\ ts[i].readyState = "OPEN"
    THEN [ts EXCEPT ![i].readyState = "CLOSING"]
    ELSE ts

\* socket.close(): a CONNECTING or OPEN socket starts closing, the close
\* event follows in a later task; on a CLOSING or CLOSED socket it does nothing
Close(ts, i) ==
  IF i # 0 /\ ts[i].readyState \in {"CONNECTING", "OPEN"}
    THEN [ts EXCEPT ![i].readyState = "CLOSING"]
    ELSE ts

\* a changeUrl without the test for an unchanged url
changeUrlBodyAlways(newUrl) ==
  /\ url' = newUrl
  /\ transports' = Close(transports, socket)
  /\ awaitingAttempt' = (awaitingAttempt \/ transports' # transports)

changeUrlBody(newUrl) ==
  IF url = newUrl
    THEN UNCHANGED <<url, transports, awaitingAttempt>>
    ELSE /\ url' = newUrl
         /\ transports' = Close(transports, socket)
         /\ awaitingAttempt' = (awaitingAttempt \/ transports' # transports)

changeUrl(newUrl) ==
  /\ instance
  /\ changeUrlBody(newUrl)
  /\ last' = Task("changeUrl", newUrl, <<>>, FALSE)
  /\ UNCHANGED <<instance, socket, reconnectAttempts, timers, messageCallbacks,
                 connectionCallbacks, connLog, failedStreak, scheduled, everOpened>>
  /\ UNCHANGED <<notifiedState, wire, hookVars>>

(***************************************************************************)
(* getInstance(url?)                                                       *)
(***************************************************************************)
\* a getInstance that constructs a new service when the url differs
getInstanceReconstructs(u) ==
  /\ IF ~instance
       THEN IF u = NoUrl
              THEN /\ last' = Task("getInstance", u, <<>>, TRUE)
                   /\ UNCHANGED <<instance, url, socket, transports,
                                  reconnectAttempts, timers, failedStreak,
                                  scheduled, awaitingAttempt, wire>>
              ELSE /\ instance' = TRUE
                   /\ url' = u
                   /\ connect(u, timers)
                   /\ last' = Task("getInstance", u, <<>>, FALSE)
       ELSE IF u # NoUrl /\ url # u
              THEN /\ url' = u
                   /\ connect(u, timers)
                   /\ last' = Task("getInstance", u, <<>>, FALSE)
                   /\ UNCHANGED instance
              ELSE /\ last' = Task("getInstance", u, <<>>, FALSE)
                   /\ UNCHANGED <<instance, url, socket, transports,
                                  reconnectAttempts, timers, failedStreak,
                                  scheduled, awaitingAttempt, wire>>
  /\ UNCHANGED <<messageCallbacks, connectionCallbacks, connLog, everOpened>>
  /\ UNCHANGED <<notifiedState, hookVars>>

getInstance(u) ==
  /\ IF ~instance
       THEN IF u = NoUrl
              THEN \* throw new Error("WebSocket URL must be provided ...")
                   /\ last' = Task("getInstance", u, <<>>, TRUE)
                   /\ UNCHANGED <<instance, url, socket, transports,
                                  reconnectAttempts, timers, failedStreak,
                                  scheduled, awaitingAttempt, wire>>
              ELSE \* new WebSocketService(url): this.url = url; this.connect()
                   /\ instance' = TRUE
                   /\ url' = u
                   /\ connect(u, timers)
                   /\ last' = Task("getInstance", u, <<>>, FALSE)
       ELSE /\ IF u # NoUrl /\ url # u
                 THEN changeUrlBody(u)
                 ELSE UNCHANGED <<url, transports, awaitingAttempt>>
            /\ last' = Task("getInstance", u, <<>>, FALSE)
            /\ UNCHANGED <<instance, socket, reconnectAttempts, timers,
                           failedStreak, scheduled, wire>>
  /\ UNCHANGED <<messageCallbacks, connectionCallbacks, connLog, everOpened>>
  /\ UNCHANGED <<notifiedState, hookVars>>

(***************************************************************************)
(* The handlers connect() installs on a transport.                         *)
(***************************************************************************)
\* an onopen that keeps the attempt counter
AttemptsOnOpenKept == reconnectAttempts

\* this.reconnectAttempts = 0
AttemptsOnOpen == 0

\* socket.onopen of transport i
onopen(i) ==
  /\ i \in 1..Len(transports)
  /\ transports[i].readyState = "CONNECTING"
  /\ transports' = [transports EXCEPT ![i].readyState = "OPEN", ![i].wasOpen = TRUE]
  /\ reconnectAttempts' = AttemptsOnOpen
  /\ connLog' = Notified(connectionCallbacks, TRUE)
  /\ last' = Task("onopen", i, Calls(connectionCallbacks, TRUE),
                  ForEachThrows(connectionCallbacks))
  /\ failedStreak' = 0
  /\ scheduled' = 0
  /\ everOpened' = TRUE
  /\ notifiedState' = TRUE
  /\ aconn' = ConnectedAfter(connectionCallbacks, TRUE)
  /\ UNCHANGED <<instance, url, socket, timers, messageCallbacks,
                 connectionCallbacks, awaitingAttempt, wire, phase, adata, aerror>>

(***************************************************************************)
(* messageCallbacks.forEach(cb => cb(data)) with callbacks that call        *)
(* onMessage / offMessage.  forEach runs on the array object that the field *)
(* held when it was called (iter) and visits the indices below the length   *)
(* that array had then.  offMessage assigns a new array (filter) to the     *)
(* field and leaves the old one as it is; onMessage pushes onto the array   *)
(* the field holds, which is the iterated one as long as no filter has      *)
(* replaced it (same).                                                      *)
(***************************************************************************)
\* a filter that keeps the callback it should remove
RemoveCbKeeps(cbs, cb) == SelectSeq(cbs, LAMBDA c : c = cb)

\* callbacks.filter(c => c !== cb)
RemoveCb(cbs, cb) == SelectSeq(cbs, LAMBDA c : c # cb)

\* what this.messageCallbacks holds after callback cb has run
FieldAfter(field, cb) ==
  IF cb = "uSelf" THEN RemoveCb(field, "uSelf")
  ELSE IF cb = "uOther" THEN RemoveCb(field, "m1")
  ELSE IF cb = "sNew" /\ NewCb \notin Range(field) THEN Append(field, NewCb)
  ELSE field

\* a loop that tests i < callbacks.length before every call
VisitBoundLive(len, iter) == Len(iter)

\* forEach: the last index visited is fixed before the first call
VisitBound(len, iter) == len

RECURSIVE ForEachWalk(_, _, _, _, _)
\* the callbacks called from index k on, and the final value of the field
ForEachWalk(iter, field, same, k, len) ==
  IF k > VisitBound(len, iter)
    THEN [called |-> <<>>, field |-> field]
    ELSE LET cb == iter[k]
             field1 == FieldAfter(field, cb)
             same1 == same /\ cb \notin Unsubscribing
             iter1 == IF same1 THEN field1 ELSE iter
         IN IF cb \in MsgThrowing
              THEN [called |-> <<cb>>, field |-> field]
              ELSE LET rest == ForEachWalk(iter1, field1, same1, k + 1, len)
                   IN [called |-> <<cb>> \o rest.called, field |-> rest.field]

MessageWalk == ForEachWalk(messageCallbacks, messageCallbacks, TRUE, 1,
                           Len(messageCallbacks))

\* a receive path that reaches the forEach although JSON.parse failed
BroadcastUnparsed(f) == Calls(messageCallbacks, JSONParse(f).value)

\* try { data = JSON.parse(event.data); messageCallbacks.forEach(cb => cb(data)) }
\* catch: the calls made for event.data = f.  The catch takes the SyntaxError
\* of JSON.parse and, with it, an exception thrown by a callback.
Broadcast(f) ==
  IF JSONParse(f).ok
    THEN [k \in 1..Len(MessageWalk.called) |->
            <<MessageWalk.called[k], JSONParse(f).value>>]
    ELSE <<>>

\* socket.onmessage of transport i, with event.data = f
onmessage(i, f) ==
  /\ i \in 1..Len(transports)
  /\ transports[i].readyState = "OPEN"
  /\ last' = Task("onmessage", f, Broadcast(f), FALSE)
  /\ adata' = DataAfter(Broadcast(f))
  /\ messageCallbacks' = IF JSONParse(f).ok THEN MessageWalk.field
                                            ELSE messageCallbacks
  /\ UNCHANGED <<instance, url, socket, transports, reconnectAttempts, timers,
                 connectionCallbacks, connLog, failedStreak,
                 scheduled, everOpened, awaitingAttempt, notifiedState, wire,
                 phase, aconn, aerror>>

\* socket.onclose of transport i (socket.onerror does nothing: a failed
\* connection and a lost connection both end in the close event)
onclose(i) ==
  /\ i \in 1..Len(transports)
  /\ IsLive(transports[i])
  /\ transports' = [transports EXCEPT ![i].readyState = "CLOSED"]
  /\ connLog' = Notified(connectionCallbacks, FALSE)
  /\ last' = Task("onclose", i, Calls(connectionCallbacks, FALSE),
                  ForEachThrows(connectionCallbacks))
  /\ IF ForEachThrows(connectionCallbacks)
       THEN UNCHANGED <<reconnectAttempts, timers, scheduled>>
       ELSE scheduleReconnect(timers)
  /\ failedStreak' = IF transports[i].wasOpen THEN failedStreak ELSE failedStreak + 1
  /\ notifiedState' = FALSE
  /\ aconn' = ConnectedAfter(connectionCallbacks, FALSE)
  /\ UNCHANGED <<instance, url, socket, messageCallbacks, connectionCallbacks,
                 everOpened, awaitingAttempt, wire, phase, adata, aerror>>

\* a timer that stays armed after it fired (setInterval for setTimeout)
reconnectTimerRepeats ==
  /\ timers > 0
  /\ connect(url, timers)
  /\ last' = Task("timer", url, <<>>, FALSE)
  /\ UNCHANGED <<instance, url, messageCallbacks, connectionCallbacks, connLog,
                 everOpened, notifiedState, hookVars>>

\* the reconnect timer fires: () => this.connect()
reconnectTimer ==
  /\ timers > 0
  /\ connect(url, timers - 1)
  /\ last' = Task("timer", url, <<>>, FALSE)
  /\ UNCHANGED <<instance, url, messageCallbacks, connectionCallbacks, connLog,
                 everOpened, notifiedState, hookVars>>

(***************************************************************************)
(* Subscription.  A callback is a closure its subscriber creates for the   *)
(* registration (useWebSocket: handleMessage, handleConnectionChange), so  *)
(* the callback passed to on* is one that is not in the list.              *)
(***************************************************************************)
onMessage(cb) ==
  /\ instance
  /\ cb \notin Range(messageCallbacks)
  /\ messageCallbacks' = Append(messageCallbacks, cb)
  /\ last' = Task("onMessage", cb, <<>>, FALSE)
  /\ UNCHANGED <<instance, url, socket, transports, reconnectAttempts, timers,
                 connectionCallbacks, connLog, failedStreak, scheduled,
                 everOpened, awaitingAttempt, notifiedState, wire, hookVars>>

offMessage(cb) ==
  /\ instance
  /\ messageCallbacks' = RemoveCb(messageCallbacks, cb)
  /\ last' = Task("offMessage", cb, <<>>, FALSE)
  /\ UNCHANGED <<instance, url, socket, transports, reconnectAttempts, timers,
                 connectionCallbacks, connLog, failedStreak, scheduled,
                 everOpened, awaitingAttempt, notifiedState, wire, hookVars>>

onConnectionChange(cb) ==
  /\ instance
  /\ cb \notin Range(connectionCallbacks)
  /\ connectionCallbacks' = Append(connectionCallbacks, cb)
  /\ connLog' = [connLog EXCEPT ![cb] = <<>>]
  /\ last' = Task("onConnectionChange", cb, <<>>, FALSE)
  /\ UNCHANGED <<instance, url, socket, transports, reconnectAttempts, timers,
                 messageCallbacks, failedStreak, scheduled, everOpened,
                 awaitingAttempt, notifiedState, wire, hookVars>>

offConnectionChange(cb) ==
  /\ instance
  /\ connectionCallbacks' = RemoveCb(connectionCallbacks, cb)
  /\ connLog' = [connLog EXCEPT ![cb] = <<>>]
  /\ last' = Task("offConnectionChange", cb, <<>>, FALSE)
  /\ UNCHANGED <<instance, url, socket, transports, reconnectAttempts, timers,
                 messageCallbacks, failedStreak, scheduled, everOpened,
                 awaitingAttempt, notifiedState, wire, hookVars>>

(***************************************************************************)
(* send(msg)                                                               *)
(***************************************************************************)
\* a send without the isConnected() test
SendFramesUnguarded(msg) ==
  IF JSONStringify(msg).ok THEN <<JSONStringify(msg).text>> ELSE <<>>

\* a send that transmits the frame a second time
SendFramesTwice(msg) ==
  IF isConnected /\ JSONStringify(msg).ok
    THEN <<JSONStringify(msg).text, JSONStringify(msg).text>>
    ELSE <<>>

\* the frames send(msg) hands to this.socket.send, in order
SendFrames(msg) ==
  IF isConnected /\ JSONStringify(msg).ok THEN <<JSONStringify(msg).text>> ELSE <<>>

\* JSON.stringify(msg) is reached only when connected; its TypeError leaves send
SendThrows(msg) == isConnected /\ ~JSONStringify(msg).ok

SocketSends(frames) == [k \in 1..Len(frames) |-> <<"socket.send", frames[k]>>]

send(msg) ==
  /\ instance
  /\ wire' = Keep(wire \o SendFrames(msg))
  /\ last' = Task("send", msg, SocketSends(SendFrames(msg)), SendThrows(msg))
  /\ UNCHANGED <<instance, url, socket, transports, reconnectAttempts, timers,
                 messageCallbacks, connectionCallbacks, connLog, failedStreak,
                 scheduled, everOpened, awaitingAttempt, notifiedState, hookVars>>

(***************************************************************************)
(* useWebSocket(), per component a.                                        *)
(***************************************************************************)
\* useState<boolean>(webSocketService.isConnected())
InitialConnected == isConnected

\* the first render of the component: the three useState initialisers.  The
\* effect is run by React in a later task.
render(a) ==
  /\ instance
  /\ phase[a] = "unmounted"
  /\ phase' = [phase EXCEPT ![a] = "rendered"]
  /\ adata' = [adata EXCEPT ![a] = NoData]
  /\ aconn' = [aconn EXCEPT ![a] = InitialConnected]
  /\ aerror' = [aerror EXCEPT ![a] = NoError]
  /\ last' = Task("render", a, <<>>, FALSE)
  /\ UNCHANGED <<instance, url, socket, transports, reconnectAttempts, timers,
                 messageCallbacks, connectionCallbacks, connLog, failedStreak,
                 scheduled, everOpened, awaitingAttempt, notifiedState, wire>>

\* an effect whose registration replays the message another component holds
effectReplays(a) ==
  /\ phase[a] = "rendered"
  /\ phase' = [phase EXCEPT ![a] = "attached"]
  /\ connectionCallbacks' = Append(connectionCallbacks, a)
  /\ messageCallbacks' = Append(messageCallbacks, a)
  /\ adata' = [adata EXCEPT ![a] =
                 IF \E b \in Adapters : adata[b] # NoData
                   THEN adata[CHOOSE b \in Adapters : adata[b] # NoData]
                   ELSE NoData]
  /\ last' = Task("effect", a, <<>>, FALSE)
  /\ UNCHANGED <<instance, url, socket, transports, reconnectAttempts, timers,
                 connLog, failedStreak, scheduled, everOpened, awaitingAttempt,
                 notifiedState, wire, aconn, aerror>>

\* the effect: onConnectionChange(handleConnectionChange); onMessage(handleMessage)
effect(a) ==
  /\ phase[a] = "rendered"
  /\ phase' = [phase EXCEPT ![a] = "attached"]
  /\ connectionCallbacks' = Append(connectionCallbacks, a)
  /\ messageCallbacks' = Append(messageCallbacks, a)
  /\ last' = Task("effect", a, <<>>, FALSE)
  /\ UNCHANGED <<instance, url, socket, transports, reconnectAttempts, timers,
                 connLog, failedStreak, scheduled, everOpened, awaitingAttempt,
                 notifiedState, wire, adata, aconn, aerror>>

\* the cleanup of the effect, at unmount: offConnectionChange; offMessage.
\* The state of the component is discarded with it.
cleanup(a) ==
  /\ phase[a] = "attached"
  /\ phase' = [phase EXCEPT ![a] = "unmounted"]
  /\ connectionCallbacks' = RemoveCb(connectionCallbacks, a)
  /\ messageCallbacks' = RemoveCb(messageCallbacks, a)
  /\ adata' = [adata EXCEPT ![a] = NoData]
  /\ aconn' = [aconn EXCEPT ![a] = FALSE]
  /\ aerror' = [aerror EXCEPT ![a] = NoError]
  /\ last' = Task("cleanup", a, <<>>, FALSE)
  /\ UNCHANGED <<instance, url, socket, transports, reconnectAttempts, timers,
                 connLog, failedStreak, scheduled, everOpened, awaitingAttempt,
                 notifiedState, wire>>

\* the send of the hook: try { webSocketService.send(msg) } catch (err)
\* { setError(err) }
hookSend(a, msg) ==
  /\ phase[a] # "unmounted"
  /\ wire' = Keep(wire \o SendFrames(msg))
  /\ aerror' = IF SendThrows(msg) THEN [aerror EXCEPT ![a] = "TypeError"] ELSE aerror
  /\ last' = Task("hookSend", <<a, msg>>, SocketSends(SendFrames(msg)), FALSE)
  /\ UNCHANGED <<instance, url, socket, transports, reconnectAttempts, timers,
                 messageCallbacks, connectionCallbacks, connLog, failedStreak,
                 scheduled, everOpened, awaitingAttempt, notifiedState, phase,
                 adata, aconn>>

(***************************************************************************)
(* Specification.                                                          *)
(***************************************************************************)
\* module load: `private static instance = null`; the fields of the service
\* hold their initialisers from the first getInstance(url) on
Init ==
  /\ instance = FALSE
  /\ url = NoUrl
  /\ socket = 0
  /\ transports = <<>>
  /\ reconnectAttempts = 0
  /\ timers = 0
  /\ messageCallbacks = <<>>
  /\ connectionCallbacks = <<>>
  /\ connLog = [c \in ConnCbs |-> <<>>]
  /\ failedStreak = 0
  /\ scheduled = 0
  /\ everOpened = FALSE
  /\ awaitingAttempt = FALSE
  /\ last = Task("load", NoUrl, <<>>, FALSE)
  /\ notifiedState = FALSE
  /\ wire = <<>>
  /\ phase = [a \in Adapters |-> "unmounted"]
  /\ adata = [a \in Adapters |-> NoData]
  /\ aconn = [a \in Adapters |-> FALSE]
  /\ aerror = [a \in Adapters |-> NoError]

Next ==
  \/ \E u \in Urls \cup {NoUrl} : getInstance(u)
  \/ \E u \in Urls : changeUrl(u)
  \/ \E i \in 1..Len(transports) : onopen(i)
  \/ \E i \in 1..Len(transports) : \E f \in Frames : onmessage(i, f)
  \/ \E i \in 1..Len(transports) : onclose(i)
  \/ reconnectTimer
  \/ \E cb \in MsgCbs : onMessage(cb)
  \/ \E cb \in MsgCbs : offMessage(cb)
  \/ \E cb \in ConnCbs : onConnectionChange(cb)
  \/ \E cb \in ConnCbs : offConnectionChange(cb)

Spec == Init /\ [][Next]_vars

\* The service with its outbound path: send(msg) next to the connection
\* lifecycle and the subscriptions.  No frame arrives here, so no message
\* callback is ever called.
SendNext ==
  \/ \E u \in Urls \cup {NoUrl} : getInstance(u)
  \/ \E u \in Urls : changeUrl(u)
  \/ \E i \in 1..Len(transports) : onopen(i)
  \/ \E i \in 1..Len(transports) : onclose(i)
  \/ reconnectTimer
  \/ \E msg \in Msgs : send(msg)
  \/ \E cb \in MsgCbs \ MsgThrowing : onMessage(cb)
  \/ \E cb \in MsgCbs \ MsgThrowing : offMessage(cb)
  \/ \E cb \in ConnCbs : onConnectionChange(cb)
  \/ \E cb \in ConnCbs : offConnectionChange(cb)

SendSpec == Init /\ [][SendNext]_vars

\* The service with the components that use it through useWebSocket(), and
\* subscribers of other code whose callbacks throw.
HookNext ==
  \/ \E u \in Urls \cup {NoUrl} : getInstance(u)
  \/ \E u \in Urls : changeUrl(u)
  \/ \E i \in 1..Len(transports) : onopen(i)
  \/ \E i \in 1..Len(transports) : \E f \in Frames : onmessage(i, f)
  \/ \E i \in 1..Len(transports) : onclose(i)
  \/ reconnectTimer
  \/ \E cb \in MsgThrowing : onMessage(cb)
  \/ \E cb \in MsgThrowing : offMessage(cb)
  \/ \E a \in Adapters : render(a)
  \/ \E a \in Adapters : effect(a)
  \/ \E a \in Adapters : cleanup(a)

HookSpec == Init /\ [][HookNext]_vars

\* The components and the send of the hook.
HookSendNext ==
  \/ \E u \in Urls \cup {NoUrl} : getInstance(u)
  \/ \E u \in Urls : changeUrl(u)
  \/ \E i \in 1..Len(transports) : onopen(i)
  \/ \E i \in 1..Len(transports) : onclose(i)
  \/ reconnectTimer
  \/ \E a \in Adapters : render(a)
  \/ \E a \in Adapters : effect(a)
  \/ \E a \in Adapters : cleanup(a)
  \/ \E a \in Adapters : \E msg \in HookMsgs : hookSend(a, msg)

HookSendSpec == Init /\ [][HookSendNext]_vars

\* The service with message subscribers that subscribe and unsubscribe from
\* inside their callback.
ReentrantNext ==
  \/ \E u \in Urls \cup {NoUrl} : getInstance(u)
  \/ \E i \in 1..Len(transports) : onopen(i)
  \/ \E i \in 1..Len(transports) : \E f \in Frames : onmessage(i, f)
  \/ \E i \in 1..Len(transports) : onclose(i)
  \/ reconnectTimer
  \/ \E cb \in ReentrantCbs \cup (MsgCbs \ MsgThrowing) : onMessage(cb)
  \/ \E cb \in ReentrantCbs \cup (MsgCbs \ MsgThrowing) \cup {NewCb} : offMessage(cb)

ReentrantSpec == Init /\ [][ReentrantNext]_vars

(***************************************************************************)
(* Properties.                                                             *)
(***************************************************************************)
\* the manager has given up: the budget is spent and nothing is pending
Exhausted ==
  /\ instance
  /\ reconnectAttempts > maxReconnectAttempts
  /\ timers = 0
  /\ LiveTransports = {}

\* C1: the service never has two live transports at the same time: at most
\* one WebSocket is not CLOSED, so a transport is created only after the
\* previous one has closed or could not be created.
C1_AtMostOneLiveTransport == Cardinality(LiveTransports) <= 1

\* a reconnect has created a transport after two attempts failed
C1_Witness ==
  /\ last.op = "timer"
  /\ failedStreak >= 2
  /\ Cardinality(LiveTransports) = 1

\* C2: while no transport has ever opened, the manager is never connected and
\* never sets more than maxReconnectAttempts reconnect timers; once its
\* counter has passed the maximum it has set exactly maxReconnectAttempts of
\* them, no timer is pending and no transport is left to start a new attempt.
C2_BudgetWhenNeverOpened ==
  ~everOpened =>
    /\ ~isConnected
    /\ scheduled <= maxReconnectAttempts
    /\ reconnectAttempts > maxReconnectAttempts =>
         /\ scheduled = maxReconnectAttempts
         /\ timers = 0
         /\ LiveTransports = {}

\* every attempt from construction on has failed and the manager has given up
C2_Witness == ~everOpened /\ Exhausted /\ failedStreak = reconnectAttempts

\* C3 as stated: the number of consecutive failed connection attempts never
\* exceeds maxReconnectAttempts.
C3_FailedAttemptsWithinMax == failedStreak <= maxReconnectAttempts

\* C3 as amended: the budget bounds the reconnect attempts, and the attempt
\* made at construction is not one of them.  At most maxReconnectAttempts + 1
\* connection attempts fail in a row, and at most maxReconnectAttempts after
\* a transport has opened.
C3_FailedAttemptsWithinBudget ==
  /\ failedStreak <= maxReconnectAttempts + 1
  /\ everOpened => failedStreak <= maxReconnectAttempts

\* the attempt of construction and all maxReconnectAttempts reconnects failed
C3_Witness == ~everOpened /\ failedStreak = maxReconnectAttempts + 1

C5_BroadcastComplete ==
  (last.op = "onmessage" /\ JSONParse(last.arg).ok) =>
    last.calls = [k \in 1..Len(messageCallbacks) |->
                    <<messageCallbacks[k], JSONParse(last.arg).value>>]

\* C6: an open leaves the attempt counter at 0, and the closes that follow an
\* open get the whole budget: when the counter passes the maximum again,
\* maxReconnectAttempts reconnect timers have been set since that open.
C6_ResetOnOpen ==
  /\ last.op = "onopen" => reconnectAttempts = 0
  /\ (everOpened /\ reconnectAttempts > maxReconnectAttempts) =>
       scheduled = maxReconnectAttempts

\* a transport opened and the whole budget was spent after it
C6_Witness == everOpened /\ Exhausted /\ scheduled = maxReconnectAttempts

\* C7: after changeUrl(u), u different from the endpoint, closed a live
\* transport, the endpoint is u, the transport is closing or closed, and
\* once its close event has been handled (no callback throwing) a reconnect
\* timer is pending, so that connect() runs against u.
C7_ChangeUrlReconnects ==
  /\ last.op = "changeUrl" => url = last.arg
  /\ (last.op = "changeUrl" /\ awaitingAttempt) =>
       (socket # 0 /\ transports[socket].readyState \in {"CLOSING", "CLOSED"})
  /\ (awaitingAttempt /\ last.op = "onclose" /\ ~last.escaped) => timers > 0

\* C8: changeUrl(u), u different from the endpoint, called after the budget
\* was exhausted resets the attempt counter and leaves a connection attempt
\* against u under way or scheduled.
C8_ChangeUrlRestarts ==
  [][\A u \in Urls :
       (Exhausted /\ u # url /\ changeUrl(u)) =>
         /\ reconnectAttempts' = 0
         /\ (timers' > 0 \/ LiveTransports' # {})]_vars

\* C9: a frame that fails to decode calls no message callback and no
\* connection callback, lets no exception out, and leaves the endpoint, the
\* transports, the attempt counter, the timers and the subscribers alone.
C9_DecodeFailureIsolated ==
  [][(last'.op = "onmessage" /\ ~JSONParse(last'.arg).ok) =>
       /\ last'.calls = <<>>
       /\ ~last'.escaped
       /\ UNCHANGED <<instance, url, socket, transports, reconnectAttempts,
                      timers, messageCallbacks, connectionCallbacks, connLog>>]_vars

\* a malformed frame was received while connected, with subscribers of both kinds
C9_Witness ==
  /\ last.op = "onmessage"
  /\ ~JSONParse(last.arg).ok
  /\ isConnected
  /\ messageCallbacks # <<>>
  /\ connectionCallbacks # <<>>

\* C10: when a message callback throws during a broadcast, every registered
\* message callback is still called with the decoded value, and the exception
\* does not leave the receive handler.
C10_ThrowingCallbackIsolated ==
  (/\ last.op = "onmessage"
   /\ JSONParse(last.arg).ok
   /\ Range(messageCallbacks) \cap MsgThrowing # {}) =>
    /\ \A cb \in Range(messageCallbacks) :
         \E k \in 1..Len(last.calls) :
           last.calls[k] = <<cb, JSONParse(last.arg).value>>
    /\ ~last.escaped

\* how often cb occurs in the callback list cbs
Count(cbs, cb) == Cardinality({k \in 1..Len(cbs) : cbs[k] = cb})

\* how often the task that ran last called cb
CallCount(cb) == Cardinality({k \in 1..Len(last.calls) : last.calls[k][1] = cb})

\* a close event is in flight: close() was called and the event has not run
CloseInFlight == \E i \in 1..Len(transports) : transports[i].readyState = "CLOSING"

\* C11: once a component has attached (its effect has run) and no close event
\* is in flight, its connected flag equals isConnected(): no transition
\* between the initial read and the registration is lost.
C11_AttachedFlagCurrent ==
  \A a \in Adapters :
    (phase[a] = "attached" /\ ~CloseInFlight) => aconn[a] = isConnected

\* C12: each callback list holds exactly one entry for every attached
\* component and none for the others, and no task calls a callback of a
\* component that is not attached.
C12_OneEntryPerAttached ==
  \A a \in Adapters :
    /\ Count(messageCallbacks, a) = (IF phase[a] = "attached" THEN 1 ELSE 0)
    /\ Count(connectionCallbacks, a) = (IF phase[a] = "attached" THEN 1 ELSE 0)
    /\ phase[a] # "attached" => CallCount(a) = 0

\* a component has detached while the other one stays attached to an open
\* transport
C12_Witness ==
  /\ last.op = "cleanup"
  /\ \E a \in Adapters : phase[a] = "attached" /\ last.arg # a
  /\ isConnected

\* C13: a component has no data until a frame arrives; a decoded frame makes
\* the data of every attached component the decoded value; and the data of a
\* component changes only by a frame or by its own mount and unmount.
C13_IndependentLatestMessage ==
  [][/\ \A a \in Adapters :
          adata'[a] # adata[a] =>
            \/ last'.op = "onmessage" /\ adata'[a] = JSONParse(last'.arg).value
            \/ last'.op \in {"render", "cleanup"} /\ last'.arg = a
     /\ (last'.op = "render") => adata'[last'.arg] = NoData
     /\ (last'.op = "onmessage" /\ JSONParse(last'.arg).ok) =>
          \A a \in Adapters :
            phase[a] = "attached" => adata'[a] = JSONParse(last'.arg).value]_vars

\* C14: a message subscriber is called once, with the decoded value, for
\* every decoded frame that arrives while it is registered, and at no other
\* time: its calls are the decoded frames, in arrival order.
C14_CalledOncePerDecodedFrame ==
  \A cb \in MsgCbs :
    /\ (last.op = "onmessage" /\ JSONParse(last.arg).ok /\ cb \in Range(messageCallbacks)) =>
         /\ CallCount(cb) = 1
         /\ \A k \in 1..Len(last.calls) :
              last.calls[k][1] = cb => last.calls[k][2] = JSONParse(last.arg).value
    /\ ~(last.op = "onmessage" /\ JSONParse(last.arg).ok /\ cb \in Range(messageCallbacks)) =>
         CallCount(cb) = 0

\* C15: send(msg) while the transport is not open hands nothing to the
\* socket, throws nothing and changes no field of the service; and no task
\* other than a send hands a frame to the socket, so nothing is queued.
C15_SendWhileClosedDiscards ==
  [][/\ (last'.op = "send" /\ ~isConnected) =>
          /\ wire' = wire
          /\ last'.calls = <<>>
          /\ ~last'.escaped
          /\ UNCHANGED <<instance, url, socket, transports, reconnectAttempts,
                         timers, messageCallbacks, connectionCallbacks>>
     /\ last'.op # "send" => (wire' = wire \/ wire' = <<>>)]_vars

\* a message was discarded while a reconnect was pending, with subscribers
C15_Witness ==
  /\ last.op = "send"
  /\ JSONStringify(last.arg).ok
  /\ ~isConnected
  /\ timers > 0
  /\ connectionCallbacks # <<>>
  /\ messageCallbacks # <<>>

\* C16: the send of the hook, called while the service is not connected,
\* sets the error of that component, throws nothing, and leaves the error of
\* the other components alone.
C16_HookSendSurfacesError ==
  [][(last'.op = "hookSend" /\ ~isConnected) =>
       /\ aerror'[last'.arg[1]] # NoError
       /\ ~last'.escaped
       /\ \A b \in Adapters \ {last'.arg[1]} : aerror'[b] = aerror[b]]_vars

\* C17: send(msg) while the transport is open, for a msg JSON.stringify
\* accepts, hands exactly one frame to the socket, the frame decodes to msg,
\* and it follows the frames of the earlier sends; no other task hands a
\* frame to the socket.
C17_SendOnceInOrder ==
  [][/\ (last'.op = "send" /\ isConnected /\ JSONStringify(last'.arg).ok) =>
          /\ wire' = Keep(Append(wire, JSONStringify(last'.arg).text))
          /\ Len(last'.calls) = 1
          /\ JSONParse(last'.calls[1][2]) = [ok |-> TRUE, value |-> last'.arg]
     /\ (last'.op # "send" /\ wire' # wire) => wire' = <<>>]_vars

\* two different messages have reached the open socket in call order
C17_Witness ==
  /\ last.op = "send"
  /\ isConnected
  /\ Len(wire) = LogLen
  /\ wire[LogLen - 1] # wire[LogLen]
  /\ wire[LogLen] = JSONStringify(last.arg).text

\* C18: changeUrl(u) with u the current endpoint changes nothing: no
\* transport is closed, the counter and the timers stay, nobody is called.
C18_SameUrlNoOp ==
  [][\A u \in Urls :
       (u = url /\ changeUrl(u)) =>
         /\ last'.calls = <<>>
         /\ UNCHANGED <<instance, url, socket, transports, reconnectAttempts,
                        timers, messageCallbacks, connectionCallbacks, connLog,
                        notifiedState, awaitingAttempt>>]_vars

\* changeUrl was called with the endpoint of the open transport
C18_Witness ==
  /\ last.op = "changeUrl"
  /\ last.arg = url
  /\ isConnected
  /\ connectionCallbacks # <<>>

\* C19: the first getInstance needs a url: without one it throws and creates
\* nothing, with one it creates the service, which connects to it.  A later
\* call returns the instance, creates no transport and sets no timer; with a
\* different url it does what changeUrl(url) does, otherwise nothing.
C19_SingleInstance ==
  [][\A u \in Urls \cup {NoUrl} :
       getInstance(u) =>
         IF ~instance
           THEN IF u = NoUrl
                  THEN /\ ~instance' /\ last'.escaped
                       /\ UNCHANGED <<url, socket, transports, timers>>
                  ELSE /\ instance' /\ ~last'.escaped /\ url' = u
                       /\ \/ Len(transports') = 1 /\ transports'[socket'].url = u
                          \/ u \in MalformedUrls /\ timers' = 1
           ELSE /\ instance' /\ ~last'.escaped
                /\ UNCHANGED <<socket, timers, reconnectAttempts>>
                /\ IF u # NoUrl /\ u # url
                     THEN url' = u /\ transports' = Close(transports, socket)
                     ELSE UNCHANGED <<url, transports>>]_vars

\* a later getInstance with another url has closed the transport
C19_Witness ==
  /\ last.op = "getInstance"
  /\ last.arg = url
  /\ socket # 0
  /\ transports[socket].readyState = "CLOSING"
  /\ transports[socket].url # url

C21_CloseWhileConnectedReconnects ==
  [][\A i \in 1..Len(transports) :
       (transports[i].readyState = "OPEN" /\ onclose(i)) =>
         /\ reconnectAttempts' = 1
         /\ timers' > 0]_vars

\* C22: every transport that is connecting or open is a transport to the
\* current endpoint: an attempt started after changeUrl(u), by a timer that
\* was pending or set later, goes to u, and no transport to an earlier
\* endpoint opens or stays open.
C22_AttemptsTargetCurrentUrl ==
  \A i \in 1..Len(transports) :
    transports[i].readyState \in {"CONNECTING", "OPEN"} => transports[i].url = url

\* changeUrl has replaced the endpoint of the closed socket while a reconnect
\* timer was pending
C22_Witness ==
  /\ last.op = "changeUrl"
  /\ url = last.arg
  /\ timers = 1
  /\ socket # 0
  /\ transports[socket].url # url

\* C23: the close event of a transport that changeUrl closed is ignored: it
\* leaves the attempt counter and the timers alone and calls no subscriber.
C23_CloseAfterChangeUrlIgnored ==
  [][\A i \in 1..Len(transports) :
       (transports[i].readyState = "CLOSING" /\ onclose(i)) =>
         /\ reconnectAttempts' = reconnectAttempts
         /\ timers' = timers
         /\ last'.calls = <<>>]_vars

\* C24: every close event calls every registered connection callback with
\* false and reaches scheduleReconnect: the counter goes up by one and a timer
\* is set when the budget allows, whatever the callbacks do.
C24_CloseAlwaysSchedules ==
  [][\A i \in 1..Len(transports) :
       onclose(i) =>
         /\ last'.calls = [k \in 1..Len(connectionCallbacks) |->
                             <<connectionCallbacks[k], FALSE>>]
         /\ reconnectAttempts' = reconnectAttempts + 1
         /\ ShouldSchedule(reconnectAttempts') => timers' = timers + 1]_vars

\* a connect() has run against a malformed endpoint: by the constructor or by
\* the reconnect timer
SyncFailure ==
  \/ last'.op = "timer" /\ url \in MalformedUrls
  \/ last'.op = "getInstance" /\ ~instance /\ last'.arg \in MalformedUrls

\* C25: a connect() whose new WebSocket(url) throws counts as a failed
\* attempt: the counter goes up by one, a timer is set if the budget allows,
\* no callback is called, no transport (and so no handler) is added, and
\* isConnected() is false afterwards.
C25_SyncFailureCounts ==
  [][SyncFailure =>
       /\ reconnectAttempts' = reconnectAttempts + 1
       /\ timers' = (IF last'.op = "timer" THEN timers - 1 ELSE timers)
                      + (IF ShouldSchedule(reconnectAttempts') THEN 1 ELSE 0)
       /\ last'.calls = <<>>
       /\ ~last'.escaped
       /\ UNCHANGED <<socket, transports, connLog, notifiedState>>
       /\ ~isConnected']_vars

\* a reconnect against a malformed endpoint has failed and set the next timer
C25_Witness ==
  /\ last.op = "timer"
  /\ url \in MalformedUrls
  /\ reconnectAttempts >= 2
  /\ timers = 1
  /\ connectionCallbacks # <<>>

\* C26: while the manager is not connected and its counter has not passed
\* maxReconnectAttempts, a transport is connecting or closing or a reconnect
\* timer is pending.
C26_NeverIdleWithBudget ==
  (instance /\ ~isConnected /\ reconnectAttempts <= maxReconnectAttempts) =>
    \/ timers > 0
    \/ \E i \in 1..Len(transports) :
         transports[i].readyState \in {"CONNECTING", "CLOSING"}

\* C27: a transport opens only when the latest notification was false (or
\* none), and every subscriber that is called with true was, if it has been
\* called since it registered, last called with false.
C27_FalseBetweenTrues ==
  [][\A i \in 1..Len(transports) :
       onopen(i) =>
         /\ ~notifiedState
         /\ \A c \in ConnCbs :
              (connLog'[c] # connLog[c] /\ connLog[c] # <<>>) =>
                ~connLog[c][Len(connLog[c])]]_vars

\* a registered subscriber was called with false, then with true by an open
C27_Witness ==
  /\ last.op = "onopen"
  /\ \E c \in Range(connectionCallbacks) : connLog[c] = <<FALSE, TRUE>>
  /\ \E c \in ConnCbs : Len(last.calls) > 0 /\ last.calls[1] = <<c, TRUE>>

\* C29: at most one reconnect timer is pending, none while a transport is
\* connecting or open, and no task sets more than one timer.
C29_OneTimerNoTransport ==
  [][/\ timers' <= 1
     /\ timers' > 0 =>
          \A i \in 1..Len(transports') :
            transports'[i].readyState \notin {"CONNECTING", "OPEN"}
     /\ scheduled' <= scheduled + 1]_vars

\* a close event has set the timer, and the closed transport is the only one
C29_Witness ==
  /\ last.op = "onclose"
  /\ timers = 1
  /\ LiveTransports = {}
  /\ reconnectAttempts >= 2

\* C30: a component has no data from its first render until a frame is
\* decoded while it is attached: its data becomes a message only in the
\* receive handler, and the registration of its callbacks calls nobody.
C30_NoReplayOnAttach ==
  [][\A a \in Adapters :
       /\ phase'[a] = "rendered" => adata'[a] = NoData
       /\ (last'.op = "effect" /\ last'.arg = a) =>
            (adata'[a] = NoData /\ last'.calls = <<>>)
       /\ (adata'[a] # NoData /\ adata'[a] # adata[a]) =>
            /\ last'.op = "onmessage"
            /\ phase[a] = "attached"]_vars

\* a component has attached to an open transport after the other component
\* received a frame, and holds no message
C30_Witness ==
  /\ last.op = "effect"
  /\ adata[last.arg] = NoData
  /\ \E b \in Adapters : adata[b] # NoData
  /\ isConnected

\* C28: a decoded frame calls exactly the message callbacks that were
\* registered when the broadcast began, each once and in order, whatever the
\* callbacks subscribe or unsubscribe meanwhile; a callback subscribed during
\* the broadcast is not called for that frame.
C28_BroadcastOverStartList ==
  [][(last'.op = "onmessage" /\ JSONParse(last'.arg).ok) =>
       last'.calls = [k \in 1..Len(messageCallbacks) |->
                        <<messageCallbacks[k], JSONParse(last'.arg).value>>]]_vars

\* a broadcast in which m1 was unsubscribed before its turn and still called,
\* and n1 was subscribed and not called
C28_Witness ==
  /\ last.op = "onmessage"
  /\ NewCb \in Range(messageCallbacks)
  /\ "m1" \notin Range(messageCallbacks)
  /\ \E j, k \in 1..Len(last.calls) :
       j < k /\ last.calls[j][1] = "uOther" /\ last.calls[k][1] = "m1"
  /\ \A k \in 1..Len(last.calls) : last.calls[k][1] # NewCb
  /\ \E k \in 1..Len(last.calls) : last.calls[k][1] = "sNew"

=============================================================================
